---- MODULE Spec2Model ----
(***************************************************************************)
(* Client-side authentication state machine of the frontend:               *)
(*   - the axios instance and its response interceptor (src/lib/api.ts),   *)
(*   - authService (services/authService),                                 *)
(*   - the AuthProvider session orchestrator (contexts/AuthContext),       *)
(*   - the legacy localStorage AuthProvider,                               *)
(*   - SensitiveDataManager.loadSensitiveData and its console output.      *)
(* The backend is external: every response it can give is an input.        *)
(***************************************************************************)
EXTENDS Integers, Sequences, FiniteSets, TLC

VARIABLES
    reqs,             \* requests of the operations in progress, by id
    last,             \* requests of the operation that completed last, by id
    nextId,           \* id of the next request to be created
    nOps,             \* number of operations the application has started
    user,             \* AuthProvider state: user
    isAuthenticated,  \* AuthProvider state: isAuthenticated
    isLoading,        \* AuthProvider state: isLoading
    effectAuth,       \* value of isAuthenticated the timer effect last ran with
    intervals,        \* number of live setInterval timers of the AuthProvider
    \* the localStorage AuthProvider
    localStorage,     \* window.localStorage, by key
    lUser,            \* its state: user
    lAuth,            \* its state: isAuthenticated
    lPending,         \* its operations waiting on their setTimeout
    lEffectAuth,      \* value of isAuthenticated its timer effect last ran with
    lIntervals,       \* number of its live setInterval timers
    \* SensitiveDataManager
    sensitiveData,    \* its state: sensitiveData
    editData,         \* its state: editData
    sdLoading,        \* its state: isLoading
    sdRequests,       \* number of its GET /users/{id}/sensitive in flight
    consoleLog,       \* what console.log and console.error have written
    \* a RateLimiter
    limiter,          \* which of the rateLimiters it is
    now,              \* Date.now()
    attempts,         \* its attempts map, by key
    rlLast,           \* the last call of isAllowed: its key and its result
    rlWindow,         \* by key: the window its last opening call began, and the
                      \* calls allowed since
    rlSince,          \* by key: the same, a clearAttempts(key) ending the window
    \* the display of SensitiveDataManager
    maskVariant,      \* which of the two SensitiveDataManager components it is
    stored,           \* the stored values, by type, as sequences of characters
    visible,          \* by type: whether the item is shown in clear
    shown,            \* by type: the text the component renders for the value
    \* PasswordChangeForm
    pcUserTotp,       \* user.totpEnabled
    currentPassword,  \* its state: currentPassword
    newPassword,      \* its state: newPassword
    confirmPassword,  \* its state: confirmPassword, as it compares with newPassword
    pcTotpCode,       \* its state: totpCode
    pcLoading,        \* its state: isLoading
    passwordStrength, \* its state: passwordStrength
    pcSent,           \* the new_password of the change-password request it sent last
    \* LoginForm
    lfEmail,          \* its state: email
    lfPassword,       \* its state: password
    twoFactorCode,    \* its state: twoFactorCode, as a sequence of characters
    show2FA,          \* its state: show2FA
    loginAttempts,    \* its state: loginAttempts
    lfLoading,        \* its state: isLoading
    lfCall,           \* the arguments of its last call of login()
    lfResult,         \* what that call returned
    \* TOTPManager
    tmUser,           \* useAuth().user
    tmLoading,        \* its state: isLoading
    qrCodeData,       \* its state: qrCodeData, whether it is not null
    verificationCode, \* its state: verificationCode, as a sequence of characters
    isVerifying,      \* its state: isVerifying
    isEnabled,        \* its state: isEnabled
    step,             \* its state: step
    disableCode,      \* its state: disableCode
    isDisabling,      \* its state: isDisabling
    tmCall,           \* the call handleVerifyAndEnable awaits, and its code
    tmDisableCall,    \* the call handleConfirmDisable awaits, and its code
    tmAnswer          \* the answer to the call of the component that returned last

legacyVars == <<localStorage, lUser, lAuth, lPending, lEffectAuth, lIntervals>>

dataVars == <<sensitiveData, editData, sdLoading, sdRequests, consoleLog>>

limiterVars == <<limiter, now, attempts, rlLast, rlWindow, rlSince>>

\* the components beside the session machinery
maskVars == <<maskVariant, stored, visible, shown>>

pwdVars == <<pcUserTotp, currentPassword, newPassword, confirmPassword, pcTotpCode,
             pcLoading, passwordStrength, pcSent>>

loginFormVars == <<lfEmail, lfPassword, twoFactorCode, show2FA, loginAttempts, lfLoading,
                   lfCall, lfResult>>

totpVars == <<tmUser, tmLoading, qrCodeData, verificationCode, isVerifying, isEnabled, step,
              disableCode, isDisabling, tmCall, tmDisableCall, tmAnswer>>

formVars == <<loginFormVars, totpVars>>

compVars == <<limiterVars, maskVars, pwdVars, formVars>>

authVars == <<reqs, last, nextId, nOps, user, isAuthenticated, isLoading, effectAuth, intervals>>

----------------------------------------------------------------------------
(* Bounds *)

\* total number of requests one behaviour creates
MaxReq == 3

\* number of operations the application starts in one behaviour
MaxOps == 2

\* total number of requests one behaviour of the HTTP client alone creates
MaxClientReq == 4

\* number of operations of the localStorage AuthProvider waiting at a time
MaxPending == 2

\* number of loads SensitiveDataManager has in flight at a time
MaxLoads == 2

\* number of console entries one behaviour writes
MaxLog == 2

\* number of times the clock of the RateLimiter is read to have advanced
MaxAdvances == 2

\* length of the longest value shorter than a whole IBAN or fiscal code that
\* is stored
MaxShort == 13

\* length of the longest password typed
MaxPwLen == 12

\* length of the longest text put into the 2FA code field
MaxTyped == 7

----------------------------------------------------------------------------
(* Values *)

NoUser == [id |-> 0, email |-> "", name |-> "", surname |-> "", totpEnabled |-> FALSE]

MarioEmail == "mario.rossi@example.com"
AnnaEmail == "anna.neri@example.com"

\* e-mail addresses the forms submit (both forms refuse an empty field): one
\* of a mock user, one of nobody
Emails == {MarioEmail, AnnaEmail}

\* what LoginForm passes to login(): the address and whether a TOTP code goes
\* with it
LoginInputs == {[email |-> MarioEmail, totp |-> FALSE], [email |-> AnnaEmail, totp |-> TRUE]}

\* name and surname typed in the registration form
RegName == "Anna"
RegSurname == "Neri"

mockUsers ==
    { [id |-> 1, email |-> "mario.rossi@example.com", name |-> "Mario", surname |-> "Rossi", totpEnabled |-> FALSE],
      [id |-> 2, email |-> "giulia.bianchi@example.com", name |-> "Giulia", surname |-> "Bianchi", totpEnabled |-> TRUE],
      [id |-> 3, email |-> "luca.verdi@example.com", name |-> "Luca", surname |-> "Verdi", totpEnabled |-> FALSE] }

getMockAuthenticatedUser ==
    [id |-> 1, email |-> "mario.rossi@example.com", name |-> "Mario", surname |-> "Rossi", totpEnabled |-> FALSE]

\* a falsy string is the empty string
Truthy(s) == s # ""

createMockUser(email, name, surname) ==
    IF Truthy(email) /\ Truthy(name) /\ Truthy(surname)
    THEN [id |-> 1, email |-> email, name |-> name, surname |-> surname, totpEnabled |-> FALSE]
    ELSE [id |-> 1, email |-> "mario.rossi@example.com", name |-> "Mario", surname |-> "Rossi", totpEnabled |-> FALSE]

\* mockUsers.find(...) || null
findMockUserByEmail(email) ==
    IF \E u \in mockUsers : u.email = email
    THEN CHOOSE u \in mockUsers : u.email = email
    ELSE NoUser

\* email.split('@')[0].split('.')[i], capitalised, '' when the part is missing
\* or empty (computed over the addresses of Emails)
NamePart(email, i) ==
    CASE email = "mario.rossi@example.com" -> IF i = 0 THEN "Mario" ELSE "Rossi"
      [] email = "anna.neri@example.com" -> IF i = 0 THEN "Anna" ELSE "Neri"
      [] OTHER -> ""

----------------------------------------------------------------------------
(* HTTP *)

Urls == {"/auth/login", "/auth/register", "/auth/logout", "/auth/refresh", "/users/sensitive"}

\* status 0: the request failed without a response (network error, timeout)
Statuses == {200, 401, 422, 423, 500, 0}

\* a backend answer: status and the totp_required field of its body, which
\* only the 422 answer to POST /auth/login is read for
Responses == [status : Statuses, totp : BOOLEAN]

\* 422 and 423 are answers to POST /auth/login, the one call whose caller
\* tells them from other errors
ResponsesTo(url) ==
    {resp \in Responses : /\ resp.totp => resp.status = 422
                          /\ resp.status \in {422, 423} => url = "/auth/login"}

NoRet == [done |-> FALSE, success |-> FALSE, requiresTOTP |-> FALSE, error |-> ""]

Ret(success, requiresTOTP, error) ==
    [done |-> TRUE, success |-> success, requiresTOTP |-> requiresTOTP, error |-> error]

\* a request config and the promise of its call
NewReq(url, owner, parent, origin, email, totp) ==
    [url |-> url, owner |-> owner, parent |-> parent, origin |-> origin,
     email |-> email, totp |-> totp,
     retry |-> FALSE, phase |-> "sent", attempts |-> 1, refreshes |-> 0,
     err |-> -1, body |-> FALSE, ret |-> NoRet]

Unused == [url |-> "", owner |-> "", parent |-> 0, origin |-> 0, email |-> "", totp |-> FALSE,
           retry |-> FALSE, phase |-> "unused", attempts |-> 0, refreshes |-> 0,
           err |-> -1, body |-> FALSE, ret |-> NoRet]

\* the slot of a request whose operation has completed
Gone == [Unused EXCEPT !.phase = "gone"]

\* the requests of a behaviour (MaxClientReq is the larger bound)
Ids == 1..MaxClientReq

Used == 1..(nextId - 1)

\* the interceptor chain a request belongs to: the request, the request whose
\* interceptor awaits it, and so on up to the request a caller issued
RECURSIVE Chain(_, _)
Chain(rq, r) == IF rq[r].parent = 0 THEN {r} ELSE {r} \cup Chain(rq, rq[r].parent)

RECURSIVE Root(_, _)
Root(rq, r) == IF rq[r].parent = 0 THEN r ELSE Root(rq, rq[r].parent)

\* the requests of the operation that root request r belongs to: its chain
\* and, for the automatic login of register(), the chain of the registration
Members(rq, r) ==
    {i \in Ids : rq[i].phase \notin {"unused", "gone"}
                 /\ Root(rq, i) \in {r, rq[r].origin}}

\* the operation of root request r has completed: its requests leave reqs
Live(rq, m) == [i \in Ids |-> IF i \in m THEN Gone ELSE rq[i]]
Completed(rq, m) == [i \in Ids |-> IF i \in m THEN rq[i] ELSE Unused]

\* what the awaiting caller sees: the response, or the rejection
Outcome(ok, status, totp) == [ok |-> ok, status |-> status, totp |-> totp]

\* ShouldRefresh with one flag shared by all requests
ShouldRefreshSharedFlag(status, retry) ==
    status = 401 /\ ~retry /\ \A i \in Ids : ~reqs[i].retry

\* ShouldRefresh without the test of the _retry flag
ShouldRefreshIgnoringRetry(status, retry) == status = 401

\* api.ts response interceptor: error.response?.status === 401 && !originalRequest._retry
ShouldRefresh(status, retry) == status = 401 /\ ~retry

----------------------------------------------------------------------------
(* Errors *)

\* what a catch block receives: an AxiosError (with or without a response) or
\* the response body authService.login throws on 423
AxiosErr(status) == [hasResponse |-> status # 0, status |-> status]
DataErr == [hasResponse |-> FALSE, status |-> 0]

BackendMessage == "backend message"
NetworkMessage == "Network error or unknown error occurred"
LockedMessage == "Account temporarily locked due to too many failed attempts"
TOTPMessage == "TOTP code required"

\* 'response' in error ? {status: response.status, message: ...} : {status: 0, ...}
handleAPIError(e) ==
    IF e.hasResponse
    THEN [status |-> e.status, message |-> BackendMessage]
    ELSE [status |-> 0, message |-> NetworkMessage]

----------------------------------------------------------------------------
(* authService *)

\* authService.login: the value returned or the error thrown
authServiceLogin(o) ==
    IF o.ok THEN [thrown |-> FALSE, totp_required |-> FALSE, err |-> DataErr]
    ELSE IF o.status = 422 THEN [thrown |-> FALSE, totp_required |-> o.totp, err |-> DataErr]
    ELSE IF o.status = 423 THEN [thrown |-> TRUE, totp_required |-> FALSE, err |-> DataErr]
    ELSE [thrown |-> TRUE, totp_required |-> FALSE, err |-> AxiosErr(o.status)]

\* verifyAuth returning true from its catch block as well
verifyAuthCatchTrue(o) == TRUE

\* authService.verifyAuth: true when the POST /auth/refresh resolved
verifyAuth(o) == o.ok

----------------------------------------------------------------------------
(* AuthProvider: what each operation does once its request has settled.     *)
(* Each returns the state it leaves and the value it returns.               *)

AuthSt(usr, auth, ret) == [user |-> usr, isAuthenticated |-> auth, ret |-> ret]

checkAuth(o) ==
    LET isValid == verifyAuth(o) IN
    IF isValid THEN AuthSt(getMockAuthenticatedUser, TRUE, Ret(TRUE, FALSE, ""))
    ELSE AuthSt(NoUser, FALSE, Ret(FALSE, FALSE, ""))

\* the user login() builds for an accepted login
loginUserData(email, totp) ==
    LET found == findMockUserByEmail(email)
        p0 == NamePart(email, 0)
        p1 == NamePart(email, 1)
        userData == IF found # NoUser THEN found
                    ELSE createMockUser(email, IF Truthy(p0) THEN p0 ELSE "User",
                                               IF Truthy(p1) THEN p1 ELSE "Unknown")
    IN IF totp THEN [userData EXCEPT !.totpEnabled = TRUE] ELSE userData

\* login without the test of totp_required
loginWithoutTotpTest(o, email, totp, usr, auth) ==
    LET result == authServiceLogin(o) IN
    IF result.thrown
    THEN AuthSt(usr, auth, Ret(FALSE, FALSE, handleAPIError(result.err).message))
    ELSE AuthSt(loginUserData(email, totp), TRUE, Ret(TRUE, FALSE, ""))

login(o, email, totp, usr, auth) ==
    LET result == authServiceLogin(o) IN
    IF result.thrown
    THEN LET apiError == handleAPIError(result.err) IN
         IF apiError.status = 423
         THEN AuthSt(usr, auth, Ret(FALSE, FALSE, LockedMessage))
         ELSE AuthSt(usr, auth, Ret(FALSE, FALSE,
                        IF Truthy(apiError.message) THEN apiError.message ELSE "Login failed"))
    ELSE IF result.totp_required
    THEN AuthSt(usr, auth, Ret(FALSE, TRUE, TOTPMessage))
    ELSE AuthSt(loginUserData(email, totp), TRUE, Ret(TRUE, FALSE, ""))

\* register() without the else branch that sets the user by hand
registerWithoutFallback(o, email, usr, auth) ==
    LET loginResult == login(o, email, FALSE, usr, auth) IN
    AuthSt(loginResult.user, loginResult.isAuthenticated, Ret(TRUE, FALSE, ""))

\* register() after its automatic login has returned
registerAfterLogin(o, email, usr, auth) ==
    LET loginResult == login(o, email, FALSE, usr, auth) IN
    IF loginResult.ret.success
    THEN AuthSt(loginResult.user, loginResult.isAuthenticated, Ret(TRUE, FALSE, ""))
    ELSE AuthSt(createMockUser(email, RegName, RegSurname), TRUE, Ret(TRUE, FALSE, ""))

\* logout clearing the session in the try block instead of the finally block
logoutInTry(o, usr, auth) ==
    IF o.ok THEN AuthSt(NoUser, FALSE, Ret(TRUE, FALSE, ""))
    ELSE AuthSt(usr, auth, Ret(TRUE, FALSE, ""))

logout(o, usr, auth) == AuthSt(NoUser, FALSE, Ret(TRUE, FALSE, ""))

\* refreshToken() whose catch block would leave the session as it is
refreshTokenKeepingSession(o, usr, auth) ==
    AuthSt(usr, auth, Ret(o.ok, FALSE, ""))

refreshToken(o, usr, auth) ==
    IF o.ok THEN AuthSt(usr, auth, Ret(TRUE, FALSE, ""))
    ELSE AuthSt(NoUser, FALSE, Ret(FALSE, FALSE, ""))

\* any other caller of the axios instance (apiMethods.get and the like)
otherCaller(o, usr, auth) ==
    AuthSt(usr, auth, Ret(o.ok, FALSE, ""))

\* the promise of root request r settles with outcome o: the awaiting
\* operation runs to its end (rq: the requests after the interceptor ran)
OwnerDone(rq, r, o) ==
    LET q == rq[r]
        st == CASE q.owner = "checkAuth" -> checkAuth(o)
                [] q.owner = "login" -> login(o, q.email, q.totp, user, isAuthenticated)
                [] q.owner = "registerLogin" -> registerAfterLogin(o, q.email, user, isAuthenticated)
                [] q.owner = "logout" -> logout(o, user, isAuthenticated)
                [] q.owner = "tick" -> refreshToken(o, user, isAuthenticated)
                [] OTHER -> otherCaller(o, user, isAuthenticated)
    IN
    /\ q.owner # "register"
    /\ user' = st.user
    /\ isAuthenticated' = st.isAuthenticated
    /\ isLoading' = IF q.owner = "checkAuth" THEN FALSE ELSE isLoading
    /\ LET rq2 == IF q.owner = "registerLogin"
                  THEN [rq EXCEPT ![r].ret = login(o, q.email, FALSE, user, isAuthenticated).ret,
                                  ![q.origin].ret = st.ret]
                  ELSE [rq EXCEPT ![r].ret = st.ret]
           m == Members(rq, r)
       IN /\ reqs' = Live(rq2, m)
          /\ last' = Completed(rq2, m)
    /\ UNCHANGED <<nextId, nOps, effectAuth, intervals>>

\* register(): the POST /auth/register settled
RegisterDone(rq, r, o) ==
    /\ rq[r].owner = "register"
    /\ IF o.ok
       THEN \* const loginResult = await login(email, password)
            /\ nextId <= MaxReq
            /\ reqs' = [rq EXCEPT ![nextId] =
                           NewReq("/auth/login", "registerLogin", 0, r, rq[r].email, FALSE)]
            /\ nextId' = nextId + 1
            /\ UNCHANGED last
       ELSE /\ LET rq2 == [rq EXCEPT ![r].ret = Ret(FALSE, FALSE, "")]
                   m == Members(rq, r)
               IN /\ reqs' = Live(rq2, m)
                  /\ last' = Completed(rq2, m)
            /\ UNCHANGED nextId
    /\ UNCHANGED <<nOps, user, isAuthenticated, isLoading, effectAuth, intervals>>

Settled(rq, r, o) == OwnerDone(rq, r, o) \/ RegisterDone(rq, r, o)

----------------------------------------------------------------------------
(* The backend answers request r *)

\* 2xx: the response interceptor passes the response on
RespondOk(r) ==
    /\ r \in Used /\ reqs[r].phase = "sent"
    /\ LET rq == [reqs EXCEPT ![r].phase = "resolved"]
           p == reqs[r].parent
       IN IF p = 0
          THEN Settled(rq, r, Outcome(TRUE, 200, FALSE))
          ELSE \* authService.refreshToken() resolved in the interceptor of p:
               \* return api(originalRequest)
               /\ reqs' = [rq EXCEPT ![p].phase = "sent", ![p].attempts = @ + 1]
               /\ UNCHANGED <<last, nextId, nOps, user, isAuthenticated, isLoading, effectAuth, intervals>>
    /\ UNCHANGED <<legacyVars, dataVars, compVars>>

\* 401 on a request not yet retried: mark it and refresh the token (limit:
\* the number of requests the behaviour may create)
Unauthorized(r, limit) ==
    /\ r \in Used /\ reqs[r].phase = "sent"
    /\ ShouldRefresh(401, reqs[r].retry)
    /\ nextId <= limit
    /\ IF reqs[r].parent = 0 THEN TRUE ELSE reqs[reqs[r].parent].parent = 0
    /\ reqs' = [reqs EXCEPT ![r].retry = TRUE, ![r].phase = "refreshing",
                            ![r].refreshes = @ + 1,
                            ![nextId] = NewReq("/auth/refresh", "interceptor", r, 0, "", FALSE)]
    /\ nextId' = nextId + 1
    /\ UNCHANGED <<last, nOps, user, isAuthenticated, isLoading, effectAuth, intervals>>
    /\ UNCHANGED <<legacyVars, dataVars, compVars>>

RespondUnauthorized(r) == Unauthorized(r, MaxReq)

\* the same for a refresh r made for a refresh q. The refresh request is sent
\* through the same axios instance with a new config, so its own 401 starts a
\* further refresh, and so on without end while the backend answers 401. Of
\* this chain the model keeps the request a caller issued and the last two
\* refreshes: q, which like r only waits for its refresh, is left out and the
\* new refresh is kept in its place
RespondUnauthorizedDeep(r) ==
    /\ r \in Used /\ reqs[r].phase = "sent"
    /\ ShouldRefresh(401, reqs[r].retry)
    /\ IF reqs[r].parent = 0 THEN FALSE ELSE reqs[reqs[r].parent].parent # 0
    /\ LET q == reqs[r].parent IN
       reqs' = [reqs EXCEPT ![r].retry = TRUE, ![r].phase = "refreshing",
                            ![r].refreshes = @ + 1, ![r].parent = reqs[q].parent,
                            ![q] = NewReq("/auth/refresh", "interceptor", r, 0, "", FALSE)]
    /\ UNCHANGED <<last, nextId, nOps, user, isAuthenticated, isLoading, effectAuth, intervals>>
    /\ UNCHANGED <<legacyVars, dataVars, compVars>>

\* any other error: the request is rejected; a rejected refresh rejects the
\* request whose interceptor awaited it with that request's own 401 error
RespondError(r, resp) ==
    /\ r \in Used /\ reqs[r].phase = "sent"
    /\ resp \in ResponsesTo(reqs[r].url) /\ resp.status # 200
    /\ ~ShouldRefresh(resp.status, reqs[r].retry)
    /\ LET chain == Chain(reqs, r)
           root == Root(reqs, r)
           rq == [i \in Ids |->
                    IF i = r THEN [reqs[i] EXCEPT !.phase = "rejected", !.err = resp.status,
                                                  !.body = resp.totp]
                    ELSE IF i \in chain THEN [reqs[i] EXCEPT !.phase = "rejected", !.err = 401]
                    ELSE reqs[i]]
       IN Settled(rq, root, IF root = r THEN Outcome(FALSE, resp.status, resp.totp)
                                        ELSE Outcome(FALSE, 401, FALSE))
    /\ UNCHANGED <<legacyVars, dataVars, compVars>>

----------------------------------------------------------------------------
(* Operations started by the application *)

Start(url, owner, email, totp) ==
    /\ nextId <= MaxReq
    /\ nOps < MaxOps
    /\ nOps' = nOps + 1
    /\ reqs' = [reqs EXCEPT ![nextId] = NewReq(url, owner, 0, 0, email, totp)]
    /\ nextId' = nextId + 1
    /\ UNCHANGED last

\* LoginForm is rendered while the session is not authenticated
LoginStart(email, totp) ==
    /\ ~isAuthenticated
    /\ Start("/auth/login", "login", email, totp)
    /\ UNCHANGED <<user, isAuthenticated, isLoading, effectAuth, intervals>>
    /\ UNCHANGED <<legacyVars, dataVars, compVars>>

\* RegisterForm is rendered while the session is not authenticated
RegisterStart(email) ==
    /\ ~isAuthenticated
    /\ Start("/auth/register", "register", email, FALSE)
    /\ UNCHANGED <<user, isAuthenticated, isLoading, effectAuth, intervals>>
    /\ UNCHANGED <<legacyVars, dataVars, compVars>>

\* SecurityHeader, which holds the logout item, is rendered while the
\* session is authenticated
LogoutStart ==
    /\ isAuthenticated
    /\ Start("/auth/logout", "logout", "", FALSE)
    /\ UNCHANGED <<user, isAuthenticated, isLoading, effectAuth, intervals>>
    /\ UNCHANGED <<legacyVars, dataVars, compVars>>

\* any other request through apiMethods: the Dashboard components that send
\* them are rendered while the session is authenticated
OtherRequestStart ==
    /\ isAuthenticated
    /\ Start("/users/sensitive", "caller", "", FALSE)
    /\ UNCHANGED <<user, isAuthenticated, isLoading, effectAuth, intervals>>
    /\ UNCHANGED <<legacyVars, dataVars, compVars>>

\* the HTTP client alone: a request of some caller of apiMethods
ClientRequestStart ==
    /\ nextId <= MaxClientReq
    /\ nOps < MaxOps
    /\ nOps' = nOps + 1
    /\ reqs' = [reqs EXCEPT ![nextId] = NewReq("/users/sensitive", "caller", 0, 0, "", FALSE)]
    /\ nextId' = nextId + 1
    /\ UNCHANGED <<last, user, isAuthenticated, isLoading, effectAuth, intervals>>
    /\ UNCHANGED <<legacyVars, dataVars, compVars>>

ClientUnauthorized(r) == Unauthorized(r, MaxClientReq)

ClientNext ==
    \/ ClientRequestStart
    \/ \E r \in Ids : RespondOk(r)
    \/ \E r \in Ids : ClientUnauthorized(r)
    \/ \E r \in Ids : RespondUnauthorizedDeep(r)
    \/ \E r \in Ids, resp \in Responses : RespondError(r, resp)

----------------------------------------------------------------------------
(* The refresh timer *)

\* a timer effect that returns no cleanup function
effectWithoutCleanup(prevAuth, n) == n

\* cleanup of the previous run of the timer effect: clearInterval(interval)
\* when that run had created one
effectCleanup(prevAuth, n) == IF prevAuth THEN n - 1 ELSE n

\* body of the timer effect: if (!isAuthenticated) return; setInterval(...)
effectBody(auth, n) == IF auth THEN n + 1 ELSE n

\* React runs the effect after a render in which isAuthenticated changed
TimerEffect ==
    /\ effectAuth # isAuthenticated
    /\ intervals' = effectBody(isAuthenticated, effectCleanup(effectAuth, intervals))
    /\ effectAuth' = isAuthenticated
    /\ UNCHANGED <<reqs, last, nextId, nOps, user, isAuthenticated, isLoading>>
    /\ UNCHANGED <<legacyVars, dataVars, compVars>>

\* a live interval fires: refreshToken()
Tick ==
    /\ intervals > 0
    /\ Start("/auth/refresh", "tick", "", FALSE)
    /\ UNCHANGED <<user, isAuthenticated, isLoading, effectAuth, intervals>>
    /\ UNCHANGED <<legacyVars, dataVars, compVars>>

----------------------------------------------------------------------------
(* The localStorage AuthProvider *)

LNoUser == [id |-> "", email |-> "", name |-> "", twoFactorEnabled |-> FALSE, loginAttempts |-> 0]

\* email.split('@')[0] (computed over the addresses of Emails)
LocalPart(email) ==
    CASE email = "mario.rossi@example.com" -> "mario.rossi"
      [] email = "anna.neri@example.com" -> "anna.neri"
      [] OTHER -> email

\* 'mock_access_token_' + Date.now() and 'mock_refresh_token_' + Date.now();
\* "" stands for a key that is not set
MockAccessToken == "mock_access_token_"
MockRefreshToken == "mock_refresh_token_"

EmptyStorage == [accessToken |-> "", refreshToken |-> "", userData |-> LNoUser]

\* login and register build the same record but for its id ('1' or Date.now())
legacyMockUser(id, email, name) ==
    [id |-> id, email |-> email, name |-> name, twoFactorEnabled |-> FALSE, loginAttempts |-> 0]

PendingOp(op, email) == [op |-> op, email |-> email]

\* the page is (re)loaded: React state starts anew, localStorage stays, and the
\* mount effect restores the session from localStorage
LegacyMount ==
    /\ lPending' = {}
    /\ lEffectAuth' = FALSE
    /\ lIntervals' = 0
    /\ IF localStorage.accessToken # "" /\ localStorage.userData # LNoUser
       THEN lUser' = localStorage.userData /\ lAuth' = TRUE
       ELSE lUser' = LNoUser /\ lAuth' = FALSE
    /\ UNCHANGED localStorage
    /\ UNCHANGED <<authVars, dataVars, compVars>>

\* login(): up to await new Promise(resolve => setTimeout(resolve, 1000))
LegacyLoginStart(email) ==
    /\ Cardinality(lPending) < MaxPending
    /\ lPending' = lPending \cup {PendingOp("login", email)}
    /\ UNCHANGED <<localStorage, lUser, lAuth, lEffectAuth, lIntervals>>
    /\ UNCHANGED <<authVars, dataVars, compVars>>

\* login(): after the timeout
LegacyLoginDone(email) ==
    /\ PendingOp("login", email) \in lPending
    /\ lPending' = lPending \ {PendingOp("login", email)}
    /\ LET mockUser == legacyMockUser("1", email, LocalPart(email)) IN
       /\ localStorage' = [accessToken |-> MockAccessToken,
                           refreshToken |-> MockRefreshToken,
                           userData |-> mockUser]
       /\ lUser' = mockUser
       /\ lAuth' = TRUE
    /\ UNCHANGED <<lEffectAuth, lIntervals>>
    /\ UNCHANGED <<authVars, dataVars, compVars>>

\* register(): up to the timeout
LegacyRegisterStart(email) ==
    /\ Cardinality(lPending) < MaxPending
    /\ lPending' = lPending \cup {PendingOp("register", email)}
    /\ UNCHANGED <<localStorage, lUser, lAuth, lEffectAuth, lIntervals>>
    /\ UNCHANGED <<authVars, dataVars, compVars>>

\* register(): after the timeout
LegacyRegisterDone(email) ==
    /\ PendingOp("register", email) \in lPending
    /\ lPending' = lPending \ {PendingOp("register", email)}
    /\ localStorage' = [localStorage EXCEPT
                           !.userData = legacyMockUser("now", email, RegName)]
    /\ UNCHANGED <<lUser, lAuth, lEffectAuth, lIntervals>>
    /\ UNCHANGED <<authVars, dataVars, compVars>>

\* what logout() leaves
legacyLogout == [localStorage |-> EmptyStorage, user |-> LNoUser, isAuthenticated |-> FALSE]

LegacyLogout ==
    /\ localStorage' = legacyLogout.localStorage
    /\ lUser' = legacyLogout.user
    /\ lAuth' = legacyLogout.isAuthenticated
    /\ UNCHANGED <<lPending, lEffectAuth, lIntervals>>
    /\ UNCHANGED <<authVars, dataVars, compVars>>

\* refreshToken(): up to the timeout; without a refresh token it logs out
LegacyRefreshStart ==
    /\ IF localStorage.refreshToken = ""
       THEN /\ localStorage' = legacyLogout.localStorage
            /\ lUser' = legacyLogout.user
            /\ lAuth' = legacyLogout.isAuthenticated
            /\ UNCHANGED lPending
       ELSE /\ Cardinality(lPending) < MaxPending
            /\ lPending' = lPending \cup {PendingOp("refresh", "")}
            /\ UNCHANGED <<localStorage, lUser, lAuth>>

\* refreshToken() called through the context
LegacyRefreshToken ==
    /\ LegacyRefreshStart
    /\ UNCHANGED <<lEffectAuth, lIntervals>>
    /\ UNCHANGED <<authVars, dataVars, compVars>>

\* refreshToken(): after the timeout
LegacyRefreshDone ==
    /\ PendingOp("refresh", "") \in lPending
    /\ lPending' = lPending \ {PendingOp("refresh", "")}
    /\ localStorage' = [localStorage EXCEPT !.accessToken = MockAccessToken]
    /\ UNCHANGED <<lUser, lAuth, lEffectAuth, lIntervals>>
    /\ UNCHANGED <<authVars, dataVars, compVars>>

\* its timer effect, run after a render in which isAuthenticated changed
LegacyTimerEffect ==
    /\ lEffectAuth # lAuth
    /\ lIntervals' = effectBody(lAuth, effectCleanup(lEffectAuth, lIntervals))
    /\ lEffectAuth' = lAuth
    /\ UNCHANGED <<localStorage, lUser, lAuth, lPending>>
    /\ UNCHANGED <<authVars, dataVars, compVars>>

\* a live interval fires: refreshToken()
LegacyTick ==
    /\ lIntervals > 0
    /\ LegacyRefreshStart
    /\ UNCHANGED <<lEffectAuth, lIntervals>>
    /\ UNCHANGED <<authVars, dataVars, compVars>>

\* first visit: nothing stored, and the mount effect found no token
LegacyInit ==
    /\ localStorage = EmptyStorage
    /\ lUser = LNoUser
    /\ lAuth = FALSE
    /\ lPending = {}
    /\ lEffectAuth = FALSE
    /\ lIntervals = 0

LegacyNext ==
    \/ LegacyMount
    \/ \E e \in Emails : LegacyLoginStart(e)
    \/ \E e \in Emails : LegacyLoginDone(e)
    \/ \E e \in Emails : LegacyRegisterStart(e)
    \/ \E e \in Emails : LegacyRegisterDone(e)
    \/ LegacyLogout
    \/ LegacyRefreshToken
    \/ LegacyRefreshDone
    \/ LegacyTimerEffect
    \/ LegacyTick

----------------------------------------------------------------------------
(* SensitiveDataManager *)

\* values the backend holds; "" stands for a field the response leaves out
Ibans == {"IT60X0542811101000000123456", "IT02L1234512345123456789012"}
FiscalCodes == {"RSSMRA80A01H501T"}

SensitiveResponses == [iban : Ibans \cup {""}, fiscal_code : FiscalCodes \cup {""}]

Item(type, value) == [type |-> type, value |-> value, isVisible |-> FALSE]

\* the display items loadSensitiveData builds from a response
dataItems(response) ==
    (IF Truthy(response.iban) THEN <<Item("iban", response.iban)>> ELSE <<>>)
    \o (IF Truthy(response.fiscal_code) THEN <<Item("fiscal_code", response.fiscal_code)>> ELSE <<>>)

\* a console entry: its text and the sensitive values printed with it
LogEntry(text, iban, fiscal_code) == [text |-> text, iban |-> iban, fiscal_code |-> fiscal_code]

\* loadSensitiveData(): up to await authService.getSensitiveData(user.id);
\* called by the mount effect and after a save
LoadStart ==
    /\ sdRequests < MaxLoads
    /\ sdRequests' = sdRequests + 1
    /\ sdLoading' = TRUE
    /\ UNCHANGED <<sensitiveData, editData, consoleLog>>
    /\ UNCHANGED <<authVars, legacyVars, compVars>>

\* loadSensitiveData(): the request resolved with response
LoadOk(response) ==
    /\ sdRequests > 0
    /\ Len(consoleLog) < MaxLog
    /\ sdRequests' = sdRequests - 1
    /\ sensitiveData' = dataItems(response)
    /\ editData' = [iban |-> response.iban, fiscal_code |-> response.fiscal_code]
    /\ consoleLog' = Append(consoleLog,
                            LogEntry("Loaded sensitive data:", response.iban, response.fiscal_code))
    /\ sdLoading' = FALSE
    /\ UNCHANGED <<authVars, legacyVars, compVars>>

\* loadSensitiveData(): the request was rejected
LoadError ==
    /\ sdRequests > 0
    /\ Len(consoleLog) < MaxLog
    /\ sdRequests' = sdRequests - 1
    /\ consoleLog' = Append(consoleLog, LogEntry("Error loading sensitive data:", "", ""))
    /\ sdLoading' = FALSE
    /\ UNCHANGED <<sensitiveData, editData>>
    /\ UNCHANGED <<authVars, legacyVars, compVars>>

toggleDataVisibility(type) ==
    /\ \E i \in 1..Len(sensitiveData) : sensitiveData[i].type = type
    /\ sensitiveData' = [i \in 1..Len(sensitiveData) |->
                            IF sensitiveData[i].type = type
                            THEN [sensitiveData[i] EXCEPT !.isVisible = ~@]
                            ELSE sensitiveData[i]]
    /\ UNCHANGED <<editData, sdLoading, sdRequests, consoleLog>>
    /\ UNCHANGED <<authVars, legacyVars, compVars>>

\* the component has mounted: useState initial values, and the mount effect
\* has called loadSensitiveData()
DataInit ==
    /\ sensitiveData = <<>>
    /\ editData = [iban |-> "", fiscal_code |-> ""]
    /\ sdLoading = TRUE
    /\ sdRequests = 1
    /\ consoleLog = <<>>

DataNext ==
    \/ LoadStart
    \/ \E response \in SensitiveResponses : LoadOk(response)
    \/ LoadError
    \/ \E type \in {"iban", "fiscal_code"} : toggleDataVisibility(type)

----------------------------------------------------------------------------
(* RateLimiter *)

\* the limiters the module creates: maxAttempts and windowMs, the time being
\* counted in units of five minutes
rateLimiters ==
    [login |-> [maxAttempts |-> 5, windowMs |-> 3],
     passwordReset |-> [maxAttempts |-> 3, windowMs |-> 12],
     totpVerification |-> [maxAttempts |-> 10, windowMs |-> 1]]

\* the keys callers pass
Keys == {"k1", "k2"}

\* this.attempts.get(key) of a key the map does not hold
NoAttempt == [count |-> 0, resetTime |-> -1]

\* isAllowed refusing only once count is above maxAttempts
isAllowedOffByOne(att, key, t, maxAttempts, windowMs) ==
    LET attempt == att[key] IN
    IF attempt = NoAttempt \/ t > attempt.resetTime
    THEN [attempts |-> [att EXCEPT ![key] = [count |-> 1, resetTime |-> t + windowMs]],
          result |-> TRUE]
    ELSE IF attempt.count > maxAttempts
    THEN [attempts |-> att, result |-> FALSE]
    ELSE [attempts |-> [att EXCEPT ![key].count = @ + 1], result |-> TRUE]

\* RateLimiter.isAllowed at time t: the map it leaves and what it returns
isAllowed(att, key, t, maxAttempts, windowMs) ==
    LET attempt == att[key] IN
    IF attempt = NoAttempt \/ t > attempt.resetTime
    THEN [attempts |-> [att EXCEPT ![key] = [count |-> 1, resetTime |-> t + windowMs]],
          result |-> TRUE]
    ELSE IF attempt.count >= maxAttempts
    THEN [attempts |-> att, result |-> FALSE]
    ELSE [attempts |-> [att EXCEPT ![key].count = @ + 1], result |-> TRUE]

\* RateLimiter.clearAttempts: this.attempts.delete(key)
clearAttempts(att, key) == [att EXCEPT ![key] = NoAttempt]

\* no window has been opened for the key
NoWindow == [resetTime |-> -1, allowed |-> 0]

\* the window a call of isAllowed(key) at time t falls in, and the calls
\* allowed in it: an allowed call outside every window opens one (the count
\* stops one above maxAttempts)
Counted(w, t, result, maxAttempts, windowMs) ==
    IF ~result THEN w
    ELSE IF w = NoWindow \/ t > w.resetTime
    THEN [resetTime |-> t + windowMs, allowed |-> 1]
    ELSE [w EXCEPT !.allowed = IF @ > maxAttempts THEN @ ELSE @ + 1]

\* a call of isAllowed: its key, its result, and whether it fell in a window
\* in which maxAttempts calls had been allowed already
NoCall == [key |-> "", result |-> FALSE, further |-> FALSE]

CallIsAllowed(key) ==
    /\ LET cfg == rateLimiters[limiter]
           res == isAllowed(attempts, key, now, cfg.maxAttempts, cfg.windowMs)
       IN /\ attempts' = res.attempts
          /\ rlLast' = [key |-> key, result |-> res.result,
                        further |-> /\ rlSince[key] # NoWindow
                                    /\ now <= rlSince[key].resetTime
                                    /\ rlSince[key].allowed >= cfg.maxAttempts]
          /\ rlWindow' = [rlWindow EXCEPT ![key] = Counted(@, now, res.result, cfg.maxAttempts, cfg.windowMs)]
          /\ rlSince' = [rlSince EXCEPT ![key] = Counted(@, now, res.result, cfg.maxAttempts, cfg.windowMs)]
    /\ UNCHANGED <<limiter, now>>
    /\ UNCHANGED <<authVars, legacyVars, dataVars, maskVars, pwdVars, formVars>>

CallClearAttempts(key) ==
    /\ attempts[key] # NoAttempt
    /\ attempts' = clearAttempts(attempts, key)
    /\ rlSince' = [rlSince EXCEPT ![key] = NoWindow]
    /\ rlLast' = NoCall
    /\ UNCHANGED <<limiter, now, rlWindow>>
    /\ UNCHANGED <<authVars, legacyVars, dataVars, maskVars, pwdVars, formVars>>

\* time passes: the length of the limiter's window
ClockAdvance ==
    /\ now < MaxAdvances * rateLimiters[limiter].windowMs
    /\ now' = now + rateLimiters[limiter].windowMs
    /\ rlLast' = NoCall
    /\ UNCHANGED <<limiter, attempts, rlWindow, rlSince>>
    /\ UNCHANGED <<authVars, legacyVars, dataVars, maskVars, pwdVars, formVars>>

\* the limiter called name, as constructed
LimiterNew(name) ==
    /\ limiter = name
    /\ now = 0
    /\ attempts = [k \in Keys |-> NoAttempt]
    /\ rlLast = NoCall
    /\ rlWindow = [k \in Keys |-> NoWindow]
    /\ rlSince = [k \in Keys |-> NoWindow]

LimiterInit == \E name \in DOMAIN rateLimiters : LimiterNew(name)

LimiterNext ==
    \/ \E k \in Keys : CallIsAllowed(k)
    \/ \E k \in Keys : CallClearAttempts(k)
    \/ ClockAdvance

----------------------------------------------------------------------------
(* The masked display of SensitiveDataManager. Strings are sequences of    *)
(* characters.                                                              *)

SampleIban == <<"I", "T", "6", "0", "X", "0", "5", "4", "2", "8", "1", "1", "1", "0", "1", "0", "0", "0", "0", "0", "0", "1", "2", "3", "4", "5", "6">>

SampleFiscalCode == <<"R", "S", "S", "M", "R", "A", "8", "0", "A", "0", "1", "H", "5", "0", "1", "T">>

DataTypes == {"iban", "fiscal_code"}

Sample(type) == IF type = "iban" THEN SampleIban ELSE SampleFiscalCode

\* what the user has typed and saved (saveSensitiveData trims the text and
\* checks nothing else): a whole value or the beginning of one
StoredValues(type) ==
    {SubSeq(Sample(type), 1, n) :
        n \in {m \in 1..MaxShort : m <= Len(Sample(type))} \cup {Len(Sample(type))}}

Min(a, b) == IF a < b THEN a ELSE b

\* value.substring(0, n)
substring0(value, n) == SubSeq(value, 1, Min(n, Len(value)))

\* value.slice(-n)
sliceLast(value, n) == SubSeq(value, Len(value) - Min(n, Len(value)) + 1, Len(value))

\* '*'.repeat(n)
RECURSIVE repeatStar(_)
repeatStar(n) == IF n <= 0 THEN <<>> ELSE <<"*">> \o repeatStar(n - 1)

IbanStars == <<" ">> \o repeatStar(4) \o <<" ">> \o repeatStar(4) \o <<" ">> \o repeatStar(4) \o <<" ">>

\* maskSensitiveValue of the component backed by the API
maskSensitiveValue(value, type) ==
    IF type = "iban"
    THEN IF Len(value) <= 8 THEN value
         ELSE substring0(value, 8) \o IbanStars \o sliceLast(value, 4)
    ELSE IF type = "fiscal_code"
    THEN IF Len(value) <= 6 THEN value
         ELSE substring0(value, 3) \o repeatStar(3) \o sliceLast(value, 3)
    ELSE repeatStar(Min(Len(value), 16))

\* maskSensitiveValue of the component with mock data, whose fiscal code
\* items have type 'codice_fiscale'
maskSensitiveValueMock(value, type) ==
    IF type = "iban"
    THEN substring0(value, 8) \o IbanStars \o sliceLast(value, 4)
    ELSE IF type = "codice_fiscale"
    THEN substring0(value, 3) \o repeatStar(3) \o sliceLast(value, 3)
    ELSE repeatStar(Min(Len(value), 16))

\* the text rendered for a value: the value when the item is visible, its
\* mask otherwise; 'Non configurato' for a value that is not set
Rendered(variant, value, type, isVisible) ==
    IF value = <<>> THEN <<>>
    ELSE IF isVisible THEN value
    ELSE IF variant = "api" THEN maskSensitiveValue(value, type)
    ELSE maskSensitiveValueMock(value, IF type = "fiscal_code" THEN "codice_fiscale" ELSE type)

\* the user saves a value of one type; the reload (or the new item) has it
\* hidden
StoreValue(type, value) ==
    /\ stored' = [stored EXCEPT ![type] = value]
    /\ visible' = IF maskVariant = "api" THEN [t \in DataTypes |-> FALSE]
                  ELSE [visible EXCEPT ![type] = FALSE]
    /\ shown' = [t \in DataTypes |-> Rendered(maskVariant, stored'[t], t, visible'[t])]
    /\ UNCHANGED maskVariant
    /\ UNCHANGED <<authVars, legacyVars, dataVars, limiterVars, pwdVars, formVars>>

\* the eye button of an item
ToggleShown(type) ==
    /\ stored[type] # <<>>
    /\ visible' = [visible EXCEPT ![type] = ~@]
    /\ shown' = [t \in DataTypes |-> Rendered(maskVariant, stored[t], t, visible'[t])]
    /\ UNCHANGED <<maskVariant, stored>>
    /\ UNCHANGED <<authVars, legacyVars, dataVars, limiterVars, pwdVars, formVars>>

\* the component of the given variant, as mounted
MaskMounted(variant) ==
    /\ maskVariant = variant
    /\ stored = [t \in DataTypes |-> <<>>]
    /\ visible = [t \in DataTypes |-> FALSE]
    /\ shown = [t \in DataTypes |-> <<>>]

MaskInit == \E variant \in {"api", "mock"} : MaskMounted(variant)

MaskNext ==
    \/ \E type \in DataTypes : \E value \in StoredValues(type) : StoreValue(type, value)
    \/ \E type \in DataTypes : ToggleShown(type)

----------------------------------------------------------------------------
(* PasswordChangeForm. A password is what the tests of the code read of    *)
(* it: its length and the classes of characters it holds.                   *)

Count(b) == IF b THEN 1 ELSE 0

\* the passwords typed: of every combination of classes, and of the lengths
\* on either side of the two lengths the code tests for (8 and 12)
Passwords ==
    {pw \in [length : {n \in 0..MaxPwLen : n % 4 = 0}, lower : BOOLEAN, upper : BOOLEAN,
             digit : BOOLEAN, special : BOOLEAN] :
        Count(pw.lower) + Count(pw.upper) + Count(pw.digit) + Count(pw.special) <= pw.length}

EmptyPassword == [length |-> 0, lower |-> FALSE, upper |-> FALSE, digit |-> FALSE, special |-> FALSE]

\* nothing sent yet
NotSent == [EmptyPassword EXCEPT !.length = -1]

calculatePasswordStrength(password) ==
    LET score == Count(password.length >= 8) + Count(password.length >= 12)
                 + Count(password.lower) + Count(password.upper)
                 + Count(password.digit) + Count(password.special)
    IN IF score <= 2 THEN "weak" ELSE IF score <= 4 THEN "medium" ELSE "strong"

\* the effect on [newPassword]
strengthEffect(password, strength) ==
    IF password # EmptyPassword THEN calculatePasswordStrength(password) ELSE strength

\* the TOTP codes typed: none, a partial one, a whole one (their lengths)
TotpLengths == {0, 3, 6}

\* the disabled attribute of the submit button
submitDisabled ==
    \/ pcLoading
    \/ currentPassword = ""
    \/ newPassword = EmptyPassword
    \/ confirmPassword = ""
    \/ confirmPassword # "same"
    \/ passwordStrength = "weak"
    \/ (pcUserTotp /\ (pcTotpCode = 0 \/ pcTotpCode # 6))

\* the validation of handlePasswordChange: TRUE when it returns early
handlerRejects ==
    \/ currentPassword = "" \/ newPassword = EmptyPassword \/ confirmPassword = ""
    \/ confirmPassword # "same"
    \/ passwordStrength = "weak"
    \/ (pcUserTotp /\ pcTotpCode = 0)

TypeCurrentPassword(text) ==
    /\ currentPassword' = text
    /\ UNCHANGED <<pcUserTotp, newPassword, confirmPassword, pcTotpCode, pcLoading,
                   passwordStrength, pcSent>>
    /\ UNCHANGED <<authVars, legacyVars, dataVars, limiterVars, maskVars, formVars>>

\* the user types a new password; the effect then sets passwordStrength
TypeNewPassword(password) ==
    /\ password # newPassword
    /\ newPassword' = password
    /\ confirmPassword' = IF confirmPassword = "" THEN "" ELSE "other"
    /\ passwordStrength' = strengthEffect(password, passwordStrength)
    /\ UNCHANGED <<pcUserTotp, currentPassword, pcTotpCode, pcLoading, pcSent>>
    /\ UNCHANGED <<authVars, legacyVars, dataVars, limiterVars, maskVars, formVars>>

\* the user types the confirmation: nothing, the new password, something else
TypeConfirmPassword(text) ==
    /\ text = "same" => newPassword # EmptyPassword
    /\ confirmPassword' = text
    /\ UNCHANGED <<pcUserTotp, currentPassword, newPassword, pcTotpCode, pcLoading,
                   passwordStrength, pcSent>>
    /\ UNCHANGED <<authVars, legacyVars, dataVars, limiterVars, maskVars, formVars>>

\* the TOTP field is rendered for a user with TOTP enabled
TypeTotpCode(length) ==
    /\ pcUserTotp
    /\ pcTotpCode' = length
    /\ UNCHANGED <<pcUserTotp, currentPassword, newPassword, confirmPassword, pcLoading,
                   passwordStrength, pcSent>>
    /\ UNCHANGED <<authVars, legacyVars, dataVars, limiterVars, maskVars, formVars>>

\* handlePasswordChange up to await changePassword(...), which sends
\* POST /auth/change-password
SubmitPasswordChange ==
    /\ ~submitDisabled
    /\ IF handlerRejects
       THEN UNCHANGED <<pcLoading, pcSent>>
       ELSE pcLoading' = TRUE /\ pcSent' = newPassword
    /\ UNCHANGED <<pcUserTotp, currentPassword, newPassword, confirmPassword, pcTotpCode,
                   passwordStrength>>
    /\ UNCHANGED <<authVars, legacyVars, dataVars, limiterVars, maskVars, formVars>>

\* handlePasswordChange after the await: the form is reset on success
PasswordChangeReturns(success) ==
    /\ pcLoading
    /\ IF success
       THEN /\ currentPassword' = ""
            /\ newPassword' = EmptyPassword
            /\ confirmPassword' = ""
            /\ pcTotpCode' = 0
            /\ passwordStrength' = strengthEffect(EmptyPassword, passwordStrength)
       ELSE UNCHANGED <<currentPassword, newPassword, confirmPassword, pcTotpCode,
                        passwordStrength>>
    /\ pcLoading' = FALSE
    /\ UNCHANGED <<pcUserTotp, pcSent>>
    /\ UNCHANGED <<authVars, legacyVars, dataVars, limiterVars, maskVars, formVars>>

\* the form as mounted for a user with or without TOTP
PasswordFormMounted(totpEnabled) ==
    /\ pcUserTotp = totpEnabled
    /\ currentPassword = ""
    /\ newPassword = EmptyPassword
    /\ confirmPassword = ""
    /\ pcTotpCode = 0
    /\ pcLoading = FALSE
    /\ passwordStrength = "weak"
    /\ pcSent = NotSent

PasswordInit == \E totpEnabled \in BOOLEAN : PasswordFormMounted(totpEnabled)

PasswordNext ==
    \/ \E text \in {"", "old password"} : TypeCurrentPassword(text)
    \/ \E password \in Passwords : TypeNewPassword(password)
    \/ \E text \in {"", "same", "other"} : TypeConfirmPassword(text)
    \/ \E length \in TotpLengths : TypeTotpCode(length)
    \/ SubmitPasswordChange
    \/ \E success \in BOOLEAN : PasswordChangeReturns(success)

----------------------------------------------------------------------------
(* LoginForm *)

maxAttempts == 5

isBlocked == loginAttempts >= maxAttempts

\* what is typed or pasted into the 2FA code field: digits and other
\* characters
TypedChars == {"7", "x"}
TypedTexts == UNION {[1..n -> TypedChars] : n \in 0..MaxTyped}

IsDigit(c) == c \in {"0", "1", "2", "3", "4", "5", "6", "7", "8", "9"}

\* e.target.value.replace(/\D/g, '').slice(0, 6)
codeFieldValue(text) ==
    LET digits == SelectSeq(text, IsDigit) IN
    SubSeq(digits, 1, Min(Len(digits), 6))

\* the third argument of login(): a code or undefined
Undefined == [defined |-> FALSE, code |-> <<>>]
Code(code) == [defined |-> TRUE, code |-> code]

NoLoginCall == [email |-> "", totpCode |-> Undefined, show2FA |-> FALSE]

\* the early returns of handleSubmit
handleSubmitRejects ==
    \/ ~Truthy(lfEmail) \/ ~Truthy(lfPassword)
    \/ show2FA /\ twoFactorCode = <<>>
    \/ show2FA /\ twoFactorCode # <<>> /\ Len(twoFactorCode) # 6

\* handleSubmit after the await, counting every failed login
afterLoginCountingAll(result, in2FA, prev, code) ==
    IF result.success
    THEN [loginAttempts |-> 0, show2FA |-> FALSE, twoFactorCode |-> <<>>]
    ELSE [loginAttempts |-> prev + 1, show2FA |-> in2FA, twoFactorCode |-> <<>>]

\* handleSubmit after the await: in2FA is the show2FA of the render whose
\* handler was called, prev and code the state the setters find
afterLogin(result, in2FA, prev, code) ==
    IF result.success
    THEN [loginAttempts |-> 0, show2FA |-> FALSE, twoFactorCode |-> <<>>]
    ELSE IF result.error = TOTPMessage
    THEN [loginAttempts |-> prev, show2FA |-> TRUE, twoFactorCode |-> <<>>]
    ELSE IF in2FA
    THEN [loginAttempts |-> prev, show2FA |-> in2FA, twoFactorCode |-> <<>>]
    ELSE [loginAttempts |-> prev + 1, show2FA |-> in2FA, twoFactorCode |-> code]

\* what the awaited request of login() ends with
LoginOutcomes ==
    {Outcome(TRUE, 200, FALSE)} \cup
    {Outcome(FALSE, resp.status, resp.totp) :
        resp \in {x \in ResponsesTo("/auth/login") : x.status # 200}}

\* the fields are disabled while the form is blocked or loading
FormTypeEmail(text) ==
    /\ ~isBlocked /\ ~lfLoading
    /\ lfEmail' = text
    /\ UNCHANGED <<lfPassword, twoFactorCode, show2FA, loginAttempts, lfLoading, lfCall, lfResult>>
    /\ UNCHANGED <<authVars, legacyVars, dataVars, limiterVars, maskVars, pwdVars, totpVars>>

FormTypePassword(text) ==
    /\ ~isBlocked /\ ~lfLoading
    /\ lfPassword' = text
    /\ UNCHANGED <<lfEmail, twoFactorCode, show2FA, loginAttempts, lfLoading, lfCall, lfResult>>
    /\ UNCHANGED <<authVars, legacyVars, dataVars, limiterVars, maskVars, pwdVars, totpVars>>

\* the code field is rendered in the 2FA step
FormTypeCode(text) ==
    /\ show2FA /\ ~isBlocked /\ ~lfLoading
    /\ twoFactorCode' = codeFieldValue(text)
    /\ UNCHANGED <<lfEmail, lfPassword, show2FA, loginAttempts, lfLoading, lfCall, lfResult>>
    /\ UNCHANGED <<authVars, legacyVars, dataVars, limiterVars, maskVars, pwdVars, totpVars>>

\* 'Torna alle credenziali', rendered in the 2FA step, disabled while loading
BackToCredentials ==
    /\ show2FA /\ ~lfLoading
    /\ show2FA' = FALSE
    /\ twoFactorCode' = <<>>
    /\ UNCHANGED <<lfEmail, lfPassword, loginAttempts, lfLoading, lfCall, lfResult>>
    /\ UNCHANGED <<authVars, legacyVars, dataVars, limiterVars, maskVars, pwdVars, totpVars>>

\* handleSubmit up to await login(...); the submit button is disabled while
\* the form is blocked or loading
HandleSubmit ==
    /\ ~isBlocked /\ ~lfLoading
    /\ IF handleSubmitRejects
       THEN UNCHANGED <<lfLoading, lfCall>>
       ELSE /\ lfLoading' = TRUE
            /\ lfCall' = [email |-> lfEmail,
                          totpCode |-> IF show2FA THEN Code(twoFactorCode) ELSE Undefined,
                          show2FA |-> show2FA]
    /\ UNCHANGED <<lfEmail, lfPassword, twoFactorCode, show2FA, loginAttempts, lfResult>>
    /\ UNCHANGED <<authVars, legacyVars, dataVars, limiterVars, maskVars, pwdVars, totpVars>>

\* login() returns and handleSubmit runs to its end. AuthProvider.login
\* catches every error of its request, so the catch block of handleSubmit is
\* not entered
LoginReturns(o) ==
    /\ lfLoading
    /\ LET result == login(o, lfCall.email, Truthy(lfCall.totpCode.code), NoUser, FALSE).ret
           st == afterLogin(result, lfCall.show2FA, loginAttempts, twoFactorCode)
       IN /\ loginAttempts' = st.loginAttempts
          /\ show2FA' = st.show2FA
          /\ twoFactorCode' = st.twoFactorCode
          /\ lfResult' = result
    /\ lfLoading' = FALSE
    /\ UNCHANGED <<lfEmail, lfPassword, lfCall>>
    /\ UNCHANGED <<authVars, legacyVars, dataVars, limiterVars, maskVars, pwdVars, totpVars>>

\* useState initial values
LoginFormMounted ==
    /\ lfEmail = "" /\ lfPassword = ""
    /\ twoFactorCode = <<>>
    /\ show2FA = FALSE
    /\ loginAttempts = 0
    /\ lfLoading = FALSE
    /\ lfCall = NoLoginCall
    /\ lfResult = NoRet

FormNext ==
    \/ \E text \in {""} \cup Emails : FormTypeEmail(text)
    \/ \E text \in {"", "password"} : FormTypePassword(text)
    \/ \E text \in TypedTexts : FormTypeCode(text)
    \/ BackToCredentials
    \/ HandleSubmit
    \/ \E o \in LoginOutcomes : LoginReturns(o)

----------------------------------------------------------------------------
(* TOTPManager *)

\* no call awaited
NoCall2FA == [phase |-> "idle", code |-> <<>>]

\* what a call of authService.twoFactor.totp ends with: verify resolves with
\* valid true or false, the others resolve, and each may be rejected
VerifyAnswers == {"valid", "invalid", "failed"}
CallAnswers == {"ok", "failed"}

\* handleVerifyAndEnable after the verify call, enabling whatever it returned
afterVerifyIgnoringValid(answer) == answer # "failed"

\* handleVerifyAndEnable after the verify call: whether the enable call is sent
afterVerify(answer) == answer = "valid"

\* handleConfirmDisable resetting the state in its finally block
afterDisableInFinally(answer) == TRUE

\* handleConfirmDisable after the disable call: whether the setters after the
\* await are reached
afterDisable(answer) == answer = "ok"

\* 'Configura TOTP' and 'Genera QR Code': handleStartSetup up to the await
StartSetup ==
    /\ step \in {"check", "setup"} /\ ~isEnabled
    /\ ~tmLoading
    /\ tmLoading' = TRUE
    /\ UNCHANGED <<tmUser, qrCodeData, verificationCode, isVerifying, isEnabled, step,
                   disableCode, isDisabling, tmCall, tmDisableCall, tmAnswer>>
    /\ UNCHANGED <<authVars, legacyVars, dataVars, limiterVars, maskVars, pwdVars, loginFormVars>>

\* handleStartSetup after getQRCode
StartSetupReturns(answer) ==
    /\ tmLoading
    /\ IF answer = "ok"
       THEN qrCodeData' = TRUE /\ step' = "verify"
       ELSE UNCHANGED <<qrCodeData, step>>
    /\ tmLoading' = FALSE
    /\ tmAnswer' = answer
    /\ UNCHANGED <<tmUser, verificationCode, isVerifying, isEnabled, disableCode, isDisabling,
                   tmCall, tmDisableCall>>
    /\ UNCHANGED <<authVars, legacyVars, dataVars, limiterVars, maskVars, pwdVars, loginFormVars>>

\* the code field of the verify step and the button that empties it
TypeVerificationCode(text) ==
    /\ step = "verify" /\ qrCodeData
    /\ verificationCode' = codeFieldValue(text)
    /\ UNCHANGED <<tmUser, tmLoading, qrCodeData, isVerifying, isEnabled, step, disableCode,
                   isDisabling, tmCall, tmDisableCall, tmAnswer>>
    /\ UNCHANGED <<authVars, legacyVars, dataVars, limiterVars, maskVars, pwdVars, loginFormVars>>

\* 'Verifica e Attiva TOTP', disabled while verifying and unless the code has
\* six characters: handleVerifyAndEnable up to the await of verify
VerifyAndEnable ==
    /\ step = "verify" /\ qrCodeData
    /\ ~isVerifying /\ Len(verificationCode) = 6
    /\ IF tmUser.id = 0 \/ verificationCode = <<>>
       THEN UNCHANGED <<isVerifying, tmCall>>
       ELSE /\ isVerifying' = TRUE
            /\ tmCall' = [phase |-> "verify", code |-> verificationCode]
    /\ UNCHANGED <<tmUser, tmLoading, qrCodeData, verificationCode, isEnabled, step, disableCode,
                   isDisabling, tmDisableCall, tmAnswer>>
    /\ UNCHANGED <<authVars, legacyVars, dataVars, limiterVars, maskVars, pwdVars, loginFormVars>>

\* handleVerifyAndEnable after verify: the enable call with the code of the
\* handler, or the end of the handler
VerifyReturns(answer) ==
    /\ tmCall.phase = "verify"
    /\ IF afterVerify(answer)
       THEN /\ tmCall' = [tmCall EXCEPT !.phase = "enable"]
            /\ UNCHANGED isVerifying
       ELSE /\ tmCall' = NoCall2FA
            /\ isVerifying' = FALSE
    /\ tmAnswer' = answer
    /\ UNCHANGED <<tmUser, tmLoading, qrCodeData, verificationCode, isEnabled, step, disableCode,
                   isDisabling, tmDisableCall>>
    /\ UNCHANGED <<authVars, legacyVars, dataVars, limiterVars, maskVars, pwdVars, loginFormVars>>

\* handleVerifyAndEnable after enable
EnableReturns(answer) ==
    /\ tmCall.phase = "enable"
    /\ IF answer = "ok"
       THEN /\ isEnabled' = TRUE
            /\ step' = "check"
            /\ qrCodeData' = FALSE
            /\ verificationCode' = <<>>
       ELSE UNCHANGED <<isEnabled, step, qrCodeData, verificationCode>>
    /\ isVerifying' = FALSE
    /\ tmCall' = NoCall2FA
    /\ tmAnswer' = answer
    /\ UNCHANGED <<tmUser, tmLoading, disableCode, isDisabling, tmDisableCall>>
    /\ UNCHANGED <<authVars, legacyVars, dataVars, limiterVars, maskVars, pwdVars, loginFormVars>>

\* 'Torna indietro' of the verify step, enabled also while verifying
handleBackToSetup ==
    /\ step = "verify" /\ qrCodeData
    /\ step' = "setup"
    /\ qrCodeData' = FALSE
    /\ verificationCode' = <<>>
    /\ disableCode' = <<>>
    /\ UNCHANGED <<tmUser, tmLoading, isVerifying, isEnabled, isDisabling, tmCall, tmDisableCall,
                   tmAnswer>>
    /\ UNCHANGED <<authVars, legacyVars, dataVars, limiterVars, maskVars, pwdVars, loginFormVars>>

\* 'Disattiva TOTP', disabled while isLoading
handleDisable ==
    /\ step = "check" /\ isEnabled
    /\ ~tmLoading
    /\ step' = "disable"
    /\ disableCode' = <<>>
    /\ UNCHANGED <<tmUser, tmLoading, qrCodeData, verificationCode, isVerifying, isEnabled,
                   isDisabling, tmCall, tmDisableCall, tmAnswer>>
    /\ UNCHANGED <<authVars, legacyVars, dataVars, limiterVars, maskVars, pwdVars, loginFormVars>>

\* the code field of the disable step and the button that empties it
TypeDisableCode(text) ==
    /\ step = "disable"
    /\ disableCode' = codeFieldValue(text)
    /\ UNCHANGED <<tmUser, tmLoading, qrCodeData, verificationCode, isVerifying, isEnabled, step,
                   isDisabling, tmCall, tmDisableCall, tmAnswer>>
    /\ UNCHANGED <<authVars, legacyVars, dataVars, limiterVars, maskVars, pwdVars, loginFormVars>>

\* 'Conferma Disattivazione TOTP', disabled while disabling and unless the
\* code has six characters: handleConfirmDisable up to the await
handleConfirmDisable ==
    /\ step = "disable"
    /\ ~isDisabling /\ Len(disableCode) = 6
    /\ IF tmUser.id = 0 \/ disableCode = <<>>
       THEN UNCHANGED <<isDisabling, tmDisableCall>>
       ELSE /\ isDisabling' = TRUE
            /\ tmDisableCall' = [phase |-> "disable", code |-> disableCode]
    /\ UNCHANGED <<tmUser, tmLoading, qrCodeData, verificationCode, isVerifying, isEnabled, step,
                   disableCode, tmCall, tmAnswer>>
    /\ UNCHANGED <<authVars, legacyVars, dataVars, limiterVars, maskVars, pwdVars, loginFormVars>>

\* handleConfirmDisable after disable
DisableReturns(answer) ==
    /\ tmDisableCall.phase = "disable"
    /\ IF afterDisable(answer)
       THEN /\ isEnabled' = FALSE
            /\ step' = "setup"
            /\ disableCode' = <<>>
       ELSE UNCHANGED <<isEnabled, step, disableCode>>
    /\ isDisabling' = FALSE
    /\ tmDisableCall' = NoCall2FA
    /\ tmAnswer' = answer
    /\ UNCHANGED <<tmUser, tmLoading, qrCodeData, verificationCode, isVerifying, tmCall>>
    /\ UNCHANGED <<authVars, legacyVars, dataVars, limiterVars, maskVars, pwdVars, loginFormVars>>

\* 'Annulla' of the disable step, disabled while disabling
handleCancelDisable ==
    /\ step = "disable"
    /\ ~isDisabling
    /\ step' = "check"
    /\ disableCode' = <<>>
    /\ UNCHANGED <<tmUser, tmLoading, qrCodeData, verificationCode, isVerifying, isEnabled,
                   isDisabling, tmCall, tmDisableCall, tmAnswer>>
    /\ UNCHANGED <<authVars, legacyVars, dataVars, limiterVars, maskVars, pwdVars, loginFormVars>>

\* useState initial values, and the effect on user?.totpEnabled run at mount
TotpManagerMounted(u) ==
    /\ tmUser = u
    /\ tmLoading = FALSE
    /\ qrCodeData = FALSE
    /\ verificationCode = <<>>
    /\ isVerifying = FALSE
    /\ isEnabled = u.totpEnabled
    /\ step = IF u.totpEnabled THEN "check" ELSE "setup"
    /\ disableCode = <<>>
    /\ isDisabling = FALSE
    /\ tmCall = NoCall2FA
    /\ tmDisableCall = NoCall2FA
    /\ tmAnswer = ""

\* the user of the session: any of the mock users
TotpInit == \E u \in mockUsers : TotpManagerMounted(u)

TotpNext ==
    \/ StartSetup
    \/ \E answer \in CallAnswers : StartSetupReturns(answer)
    \/ \E text \in TypedTexts : TypeVerificationCode(text)
    \/ VerifyAndEnable
    \/ \E answer \in VerifyAnswers : VerifyReturns(answer)
    \/ \E answer \in CallAnswers : EnableReturns(answer)
    \/ handleBackToSetup
    \/ handleDisable
    \/ \E text \in TypedTexts : TypeDisableCode(text)
    \/ handleConfirmDisable
    \/ \E answer \in CallAnswers : DisableReturns(answer)
    \/ handleCancelDisable

----------------------------------------------------------------------------

\* the AuthProvider has mounted: useState initial values, the timer effect
\* has returned early, and the mount effect has called checkAuth(), whose
\* authService.verifyAuth() has sent POST /auth/refresh
AuthInit ==
    /\ reqs = [i \in Ids |-> IF i = 1 THEN NewReq("/auth/refresh", "checkAuth", 0, 0, "", FALSE)
                                       ELSE Unused]
    /\ last = [i \in Ids |-> Unused]
    /\ nextId = 2
    /\ nOps = 0
    /\ user = NoUser
    /\ isAuthenticated = FALSE
    /\ isLoading = TRUE
    /\ effectAuth = FALSE
    /\ intervals = 0

\* the components beside the one a specification is about, as constructed
Init ==
    /\ AuthInit /\ LegacyInit /\ DataInit
    /\ LimiterNew("login") /\ MaskMounted("api") /\ PasswordFormMounted(FALSE)
    /\ LoginFormMounted /\ TotpManagerMounted(getMockAuthenticatedUser)

InitLimiter ==
    /\ AuthInit /\ LegacyInit /\ DataInit
    /\ LimiterInit /\ MaskMounted("api") /\ PasswordFormMounted(FALSE)
    /\ LoginFormMounted /\ TotpManagerMounted(getMockAuthenticatedUser)

InitMask ==
    /\ AuthInit /\ LegacyInit /\ DataInit
    /\ LimiterNew("login") /\ MaskInit /\ PasswordFormMounted(FALSE)
    /\ LoginFormMounted /\ TotpManagerMounted(getMockAuthenticatedUser)

InitPassword ==
    /\ AuthInit /\ LegacyInit /\ DataInit
    /\ LimiterNew("login") /\ MaskMounted("api") /\ PasswordInit
    /\ LoginFormMounted /\ TotpManagerMounted(getMockAuthenticatedUser)

InitTotp ==
    /\ AuthInit /\ LegacyInit /\ DataInit
    /\ LimiterNew("login") /\ MaskMounted("api") /\ PasswordFormMounted(FALSE)
    /\ LoginFormMounted /\ TotpInit

Next ==
    \/ \E in \in LoginInputs : LoginStart(in.email, in.totp)
    \/ \E e \in Emails : RegisterStart(e)
    \/ LogoutStart
    \/ OtherRequestStart
    \/ TimerEffect
    \/ Tick
    \/ \E r \in Ids : RespondOk(r)
    \/ \E r \in Ids : RespondUnauthorized(r)
    \/ \E r \in Ids : RespondUnauthorizedDeep(r)
    \/ \E r \in Ids, resp \in Responses : RespondError(r, resp)

vars == <<authVars, legacyVars, dataVars, compVars>>

Spec == Init /\ [][Next]_vars

\* some answer to request r reaches the interceptors
Answer(r) ==
    \/ RespondOk(r)
    \/ RespondUnauthorized(r)
    \/ RespondUnauthorizedDeep(r)
    \/ \E resp \in Responses : RespondError(r, resp)

\* every request sent is answered: axios is configured with a timeout of ten
\* seconds, after which a request without response fails as a network error
SpecFair == Spec /\ \A r \in Ids : WF_vars(Answer(r))

\* the HTTP client alone, beside the probe of the AuthProvider
SpecClient == Init /\ [][ClientNext]_vars

\* the localStorage AuthProvider alone
SpecLegacy == Init /\ [][LegacyNext]_vars

\* SensitiveDataManager alone
SpecData == Init /\ [][DataNext]_vars

\* a RateLimiter alone
SpecLimiter == InitLimiter /\ [][LimiterNext]_vars

\* the masked display alone
SpecMask == InitMask /\ [][MaskNext]_vars

\* PasswordChangeForm alone
SpecPassword == InitPassword /\ [][PasswordNext]_vars

\* LoginForm alone
SpecForm == Init /\ [][FormNext]_vars

\* TOTPManager alone
SpecTotp == InitTotp /\ [][TotpNext]_vars

TypeOK ==
    /\ nextId \in 1..(MaxClientReq + 1)
    /\ nOps \in 0..MaxOps
    /\ isAuthenticated \in BOOLEAN /\ isLoading \in BOOLEAN /\ effectAuth \in BOOLEAN
    /\ intervals \in Nat
    /\ \A i \in Ids : reqs[i].phase \in {"unused", "gone", "sent", "refreshing", "resolved"}
    /\ \A i \in Ids : last[i].phase \in {"unused", "resolved", "rejected"}

----------------------------------------------------------------------------
(* Properties *)

\* the requests of f that exist
Present(f) == {i \in Ids : f[i].phase \notin {"unused", "gone"}}

\* the refresh requests the interceptor of request r has issued
Refreshes(f, r) == {c \in Present(f) : f[c].parent = r}

\* the operation completing in this step: its root request
Completes(r) == reqs[r].phase = "sent" /\ reqs'[r].phase = "gone" /\ last'[r].parent = 0

RefreshAndRetryOnce(f) ==
    \A r \in Present(f) :
        LET ch == Refreshes(f, r) IN
        \* one refresh per request, started exactly when the flag was set
        /\ f[r].refreshes <= 1 /\ Cardinality(ch) = f[r].refreshes
        /\ f[r].retry <=> (f[r].refreshes = 1)
        \* one retry, and only after the refresh succeeded
        /\ f[r].attempts = 1 + Cardinality({c \in ch : f[c].phase = "resolved"})
        \* a failed refresh: the original 401 goes to the caller, no retry
        /\ (\E c \in ch : f[c].phase = "rejected")
              => (f[r].phase = "rejected" /\ f[r].err = 401 /\ f[r].attempts = 1)
        /\ (f[r].phase = "refreshing") <=> (\E c \in ch : f[c].phase \in {"sent", "refreshing"})
        \* what the caller of the request gets
        /\ (f[r].owner = "caller" /\ f[r].ret.done)
              => (f[r].ret.success <=> f[r].phase = "resolved")

\* C1: every request of the HTTP client that gets 401 causes one token
\* refresh by its interceptor; it is retried exactly once and only if that
\* refresh succeeded; a request whose retry flag is set and that gets 401
\* again is rejected without a further refresh or retry; when the refresh
\* fails the caller gets the original 401 error and the request is not retried.
C1_RefreshAndRetryOnce == RefreshAndRetryOnce(reqs) /\ RefreshAndRetryOnce(last)

\* a retried request got 401 again and was rejected to its caller
C1_Witness ==
    \E r \in Ids : /\ last[r].phase = "rejected" /\ last[r].err = 401
                   /\ last[r].attempts = 2 /\ last[r].parent = 0

\* C2: once the mount-time probe has completed isLoading is false, and the
\* session is authenticated with a user exactly when the probe's
\* POST /auth/refresh succeeded; otherwise isAuthenticated is false and user null.
C2_Bootstrap ==
    [][\A r \in Ids :
          (Completes(r) /\ last'[r].owner = "checkAuth")
             => /\ ~isLoading'
                /\ (last'[r].phase = "resolved") => (isAuthenticated' /\ user' # NoUser)
                /\ (last'[r].phase # "resolved") => (~isAuthenticated' /\ user' = NoUser)]_vars

\* the probe was answered 401, its refresh too, and the session is anonymous
C2_Witness ==
    \E r \in Ids : /\ last[r].owner = "checkAuth" /\ last[r].phase = "rejected"
                   /\ last[r].retry /\ ~isLoading /\ ~isAuthenticated

\* the interval callback runs in this step
TickFires == nextId' = nextId + 1 /\ reqs'[nextId].owner = "tick"

\* C3 as stated: an interval exists exactly while the session is
\* authenticated, so no refresh tick fires once logout or a failed refresh
\* has made isAuthenticated false.
C3_NoTickWhenUnauthenticated == [][TickFires => isAuthenticated]_vars

\* C3 amended: at most one interval exists at any time; it is created by the
\* run of the timer effect that follows isAuthenticated becoming true and
\* cleared by the effect cleanup that follows it becoming false, and no tick
\* fires once that cleanup has run.
C3_TimerFollowsEffect ==
    [][/\ intervals' = (IF effectAuth' THEN 1 ELSE 0)
       /\ TickFires => effectAuth]_vars

\* the interval had fired (its refresh is still in flight), logout has then
\* completed and the effect cleanup has cleared the interval
C3_Witness ==
    /\ \E r \in Ids : reqs[r].owner = "tick" /\ reqs[r].phase = "sent"
    /\ \E r \in Ids : last[r].owner = "logout"
    /\ ~isAuthenticated /\ ~effectAuth /\ intervals = 0

C5_LoginOnlyOn2xx ==
    [][\A r \in Ids :
          (Completes(r) /\ last'[r].owner = "login")
             => IF last'[r].phase = "resolved"
                THEN /\ last'[r].ret.success /\ isAuthenticated'
                     /\ user'.email = last'[r].email
                ELSE /\ ~last'[r].ret.success
                     /\ user' = user /\ isAuthenticated' = isAuthenticated]_vars

\* C6 as stated: a login answered 423 returns {success:false,
\* error:'Account temporarily locked due to too many failed attempts'}.
C6_LockoutReported ==
    \A r \in Ids :
        (last[r].owner = "login" /\ last[r].phase = "rejected" /\ last[r].err = 423)
           => last[r].ret = Ret(FALSE, FALSE, LockedMessage)

\* C7: once logout has completed user is null and isAuthenticated is false,
\* whether POST /auth/logout succeeded or failed.
C7_LogoutClears ==
    [][\A r \in Ids :
          (Completes(r) /\ last'[r].owner = "logout")
             => (user' = NoUser /\ ~isAuthenticated')]_vars

\* a logout whose backend call failed has ended a session that was
\* authenticated
C7_Witness ==
    \E r \in Ids : /\ last[r].owner = "logout" /\ last[r].phase = "rejected"
                   /\ effectAuth /\ ~isAuthenticated /\ user = NoUser

\* C8 as stated: isAuthenticated goes from false to true only in the step in
\* which POST /auth/login or POST /auth/refresh is answered successfully.
C8_FailSecurely ==
    [][(~isAuthenticated /\ isAuthenticated')
          => \E r \in Ids : /\ reqs[r].phase = "sent" /\ last'[r].phase = "resolved"
                            /\ last'[r].url \in {"/auth/login", "/auth/refresh"}]_vars

\* C9 as stated: whatever auth operations ran, localStorage holds no access
\* token and no refresh token.
C9_NoTokenInStorage ==
    localStorage.accessToken = "" /\ localStorage.refreshToken = ""

\* C10 as stated: no console entry carries an IBAN or a fiscal code in clear.
C10_NoSensitiveValueLogged ==
    \A i \in 1..Len(consoleLog) :
        consoleLog[i].iban = "" /\ consoleLog[i].fiscal_code = ""

\* C11 as stated: for every key, from the allowed call that opened a window
\* until its resetTime has passed, at most maxAttempts calls of isAllowed(key)
\* return true and every further call returns false.
C11_BoundPerTimeWindow ==
    \A k \in Keys : rlWindow[k].allowed <= rateLimiters[limiter].maxAttempts

\* C11 amended: for every key, from the allowed call that opened a window
\* until its resetTime has passed or clearAttempts(key) is called, at most
\* maxAttempts calls of isAllowed(key) return true and every further call
\* returns false.
C11_BoundPerWindow ==
    /\ \A k \in Keys : rlSince[k].allowed <= rateLimiters[limiter].maxAttempts
    /\ rlLast.further => ~rlLast.result

\* a key has used up its window, and a further call in it was refused
C11_Witness ==
    /\ rlLast.key \in Keys /\ rlLast.further /\ ~rlLast.result
    /\ rlSince[rlLast.key].allowed = rateLimiters[limiter].maxAttempts
    /\ now = rlSince[rlLast.key].resetTime

\* the characters of a rendered text that are not masking
Unmasked(text) == SelectSeq(text, LAMBDA c : c \notin {"*", " "})

\* C12 as stated: while an item is hidden the text shown for its value v
\* reveals only the first 8 and last 4 characters of an IBAN, only the first
\* 3 and last 3 characters of a fiscal code, and is never the full value v.
C12_MaskedDisplay ==
    \A type \in DataTypes :
        (stored[type] # <<>> /\ ~visible[type])
           => LET v == stored[type]
                  head == IF type = "iban" THEN 8 ELSE 3
                  tail == IF type = "iban" THEN 4 ELSE 3
              IN /\ \E i \in 0..head, j \in 0..tail :
                        Unmasked(shown[type]) = substring0(v, i) \o sliceLast(v, j)
                 /\ shown[type] # v

\* every requirement of the list the form shows
MeetsRequirements(password) ==
    /\ password.length >= 8
    /\ password.upper /\ password.lower /\ password.digit /\ password.special

\* C13 as stated: PasswordChangeForm sends a change-password request only
\* when the new password has at least 8 characters, an uppercase letter, a
\* lowercase letter, a digit and a special character.
C13_SendsOnlyStrongPassword ==
    pcSent # NotSent => MeetsRequirements(pcSent)

\* C14: the refresh call made by the interceptor does not itself start a
\* further refresh, so that one failing request causes a bounded number of
\* /auth/refresh calls: no request the interceptor sent has a refresh of its
\* own
C14_RefreshStartsNoRefresh ==
    \A r \in Ids : reqs[r].owner = "interceptor" => reqs[r].refreshes = 0 /\ ~reqs[r].retry

\* C15: after the AuthProvider mounts, isLoading eventually becomes false,
\* whatever the backend answers to the probe
C15_LoadingEnds == <>(~isLoading)

\* C16: when AuthProvider.refreshToken() completes, a failed backend refresh
\* has set user to null and isAuthenticated to false and the call returns
\* false; a successful one leaves user and isAuthenticated unchanged and the
\* call returns true
C16_RefreshToken ==
    [][\A r \in Ids :
          (Completes(r) /\ last'[r].owner = "tick")
             => /\ last'[r].ret.done
                /\ (last'[r].phase # "resolved")
                      => (user' = NoUser /\ ~isAuthenticated' /\ ~last'[r].ret.success)
                /\ (last'[r].phase = "resolved")
                      => (user' = user /\ isAuthenticated' = isAuthenticated
                          /\ last'[r].ret.success)]_vars

\* a refresh of the timer failed in an authenticated session, which it ended
C16_Witness ==
    \E r \in Ids : /\ last[r].owner = "tick" /\ last[r].phase = "rejected"
                   /\ ~last[r].ret.success
                   /\ effectAuth /\ ~isAuthenticated /\ user = NoUser

Callers(f) == {r \in Present(f) : f[r].parent = 0}

\* C18: the retry flag is per request. Of the requests of the callers each
\* has at most one refresh and at most one retry; one that is rejected with
\* 401 had a refresh made for it, whatever flags the other requests carry;
\* and a request changes only in a step that answers it or a refresh made
\* for it, never in a step that answers another request
C18_RetryFlagPerRequest ==
    [][/\ \A r \in Callers(reqs') :
             /\ Cardinality(Refreshes(reqs', r)) <= 1
             /\ reqs'[r].refreshes <= 1 /\ reqs'[r].attempts <= 2
             /\ reqs'[r].retry <=> (reqs'[r].refreshes = 1)
       /\ \A r \in Callers(last') :
             /\ last'[r].refreshes <= 1 /\ last'[r].attempts <= 2
             /\ (last'[r].phase = "rejected" /\ last'[r].err = 401)
                   => (last'[r].retry /\ last'[r].refreshes = 1)
       /\ \A r \in Callers(reqs) :
             (reqs'[r] # reqs[r])
                => \E c \in Present(reqs) :
                      /\ Root(reqs, c) = r
                      /\ reqs[c].phase = "sent" /\ reqs'[c] # reqs[c]]_vars

\* two requests were in flight at once, each got 401 and its own refresh,
\* and each has been sent a second time
C18_Witness ==
    \E r1, r2 \in Callers(reqs) :
        /\ r1 # r2
        /\ \A r \in {r1, r2} : /\ reqs[r].retry /\ reqs[r].refreshes = 1
                               /\ reqs[r].attempts = 2 /\ reqs[r].phase = "sent"

\* login() has returned to handleSubmit in this step
LoginReturned == lfLoading /\ ~lfLoading'

\* login() is called in this step
LoginCalled == ~lfLoading /\ lfLoading'

\* C19: a login result with error 'TOTP code required' moves the form into
\* the 2FA step and leaves loginAttempts as it was; a login that fails while
\* the form is in the 2FA step leaves loginAttempts as it was; login() gets a
\* TOTP code only in the 2FA step and only one of exactly 6 digits; a
\* successful login leaves the 2FA step and clears the code
C19_TwoFactorStep ==
    [][/\ (LoginReturned /\ ~lfResult'.success /\ lfResult'.error = TOTPMessage)
             => (show2FA' /\ loginAttempts' = loginAttempts)
       /\ (LoginReturned /\ ~lfResult'.success /\ show2FA)
             => loginAttempts' = loginAttempts
       /\ (LoginCalled /\ lfCall'.totpCode.defined)
             => /\ show2FA
                /\ Len(lfCall'.totpCode.code) = 6
                /\ \A i \in 1..6 : IsDigit(lfCall'.totpCode.code[i])
       /\ (LoginCalled /\ ~show2FA) => ~lfCall'.totpCode.defined
       /\ (LoginReturned /\ lfResult'.success)
             => (~show2FA' /\ twoFactorCode' = <<>>)]_vars

\* in the 2FA step, reached after failed attempts, a login with a code has
\* failed and the count of attempts is what it was
C19_Witness ==
    /\ show2FA /\ ~lfLoading
    /\ lfCall.totpCode.defined /\ lfCall.show2FA
    /\ lfResult.done /\ ~lfResult.success /\ lfResult.error # TOTPMessage
    /\ loginAttempts = 2

\* handleVerifyAndEnable ends in this step without having enabled TOTP: the
\* code was invalid, or the verify or the enable call failed
EnableGivenUp ==
    /\ tmCall.phase \in {"verify", "enable"} /\ tmCall'.phase = "idle"
    /\ tmAnswer' \in {"invalid", "failed"}

\* C20 as stated: an invalid code or any failed call leaves isEnabled false
\* and the wizard in the 'verify' step.
C20_FailureStaysInVerify ==
    [][EnableGivenUp => (~isEnabled' /\ step' = "verify")]_vars

\* C20: the enable call is sent only in the step in which the verify call
\* returned valid=true, and with the code of that verify call; isEnabled
\* becomes true only in the step in which that enable call succeeded; an
\* invalid code or a failed call leaves isEnabled and the step of the wizard
\* as they were
C20_EnableAfterVerify ==
    [][/\ (tmCall'.phase = "enable" /\ tmCall.phase # "enable")
             => (tmCall.phase = "verify" /\ tmAnswer' = "valid" /\ tmCall'.code = tmCall.code)
       /\ (~isEnabled /\ isEnabled')
             => (tmCall.phase = "enable" /\ tmCall'.phase = "idle" /\ tmAnswer' = "ok")
       /\ EnableGivenUp => (isEnabled' = isEnabled /\ step' = step)]_vars

\* the verify call found the code invalid after 'Torna indietro' was pressed:
\* TOTP is not enabled and the wizard is in the 'setup' step
C20_Witness ==
    /\ tmAnswer = "invalid" /\ tmCall = NoCall2FA /\ ~isVerifying
    /\ ~isEnabled /\ step = "setup"

\* handleConfirmDisable ends in this step
DisableEnds == tmDisableCall.phase = "disable" /\ tmDisableCall'.phase = "idle"

\* C21: isEnabled changes from true to false only in the step in which the
\* disable call, sent with a non-empty code, succeeded; a failed disable call
\* leaves isEnabled true and the wizard in the 'disable' step; cancelling
\* goes from the 'disable' step to the 'check' step with isEnabled unchanged
\* and without any call of the backend started
C21_DisableAfterCall ==
    [][/\ (isEnabled /\ ~isEnabled')
             => (DisableEnds /\ tmAnswer' = "ok" /\ tmDisableCall.code # <<>>)
       /\ (DisableEnds /\ tmAnswer' = "failed")
             => (isEnabled' /\ step' = "disable")
       /\ (step = "disable" /\ step' = "check")
             => /\ isEnabled' = isEnabled
                /\ tmDisableCall' = tmDisableCall /\ tmCall' = tmCall
                /\ tmLoading' = tmLoading
                /\ tmDisableCall.phase = "idle"]_vars

\* the disable call of a user whose TOTP was enabled failed: TOTP is still
\* enabled, the wizard is in the 'disable' step and keeps the code
C21_Witness ==
    /\ tmUser.totpEnabled /\ tmAnswer = "failed"
    /\ tmDisableCall = NoCall2FA /\ ~isDisabling
    /\ isEnabled /\ step = "disable" /\ Len(disableCode) = 6

====
